---- MODULE Spec2Model ----
(***************************************************************************)
(* bifrost: the runtime supervisor of src/main.rs (run, load_state,        *)
(* build_tasks) and the CLIP v2 resource handlers of src/routes/clip.rs    *)
(* (GET / POST / PUT / DELETE on the shared, lock-guarded resource store). *)
(*                                                                         *)
(* Two specifications share the start-up of run():                         *)
(*   Spec     start-up, then the request handlers, the broker client's     *)
(*            store updates and the persistence task, all on one store;    *)
(*   SupSpec  start-up, then the tasks completing and the join_next loop.  *)
(***************************************************************************)
EXTENDS Integers, Sequences, FiniteSets, TLC

\* ------------------------------------------------------------------ bounds
\* Number of request slots (requests handled concurrently by the listeners).
MaxReqs == 2
\* Number of servers in z2m_config().servers.
MaxBrokers == 1

Reqs == 1..MaxReqs
Brokers == 1..MaxBrokers

\* --------------------------------------------------------------- processes
MainProc == <<"main", 0>>
WriterProc == <<"config_writer", 0>>
ReqProc(r) == <<"request", r>>
BrokerProc(b) == <<"z2m", b>>

\* JoinSet members, in spawn order (main.rs:100-112).
HttpTask == 1
HttpsTask == 2
WriterTask == 3
BrokerTask(b) == 3 + b
FixedTasks == {HttpTask, HttpsTask, WriterTask}
Tasks == FixedTasks \cup {BrokerTask(b) : b \in Brokers}

\* ------------------------------------------------------------- data model
None == <<>>
Some(v) == <<v>>
IsSome(o) == o # <<>>
Unwrap(o) == o[1]

NoLink == [rtype |-> "none", rid |-> 0]
Link(t, i) == [rtype |-> t, rid |-> i]

\* A stored resource: the variant tag, metadata.name, the owner link (for a
\* GroupedLight or Scene) and the live "on" state.
NoRes == [type |-> "none", name |-> "", owner |-> NoLink, on |-> FALSE]
Light(n, o) == [type |-> "light", name |-> n, owner |-> NoLink, on |-> o]
Room(n) == [type |-> "room", name |-> n, owner |-> NoLink, on |-> FALSE]
GroupedLight(l) == [type |-> "grouped_light", name |-> "", owner |-> l, on |-> FALSE]
Scene(n, l) == [type |-> "scene", name |-> n, owner |-> l, on |-> FALSE]
BridgeHome == [type |-> "bridge_home", name |-> "", owner |-> NoLink, on |-> FALSE]

NoAux == [present |-> FALSE, topic |-> None, index |-> 0]
Aux(t, i) == [present |-> TRUE, topic |-> t, index |-> i]

Ids == 1..7
EmptyRes == [i \in Ids |-> NoRes]
EmptyAux == [i \in Ids |-> NoAux]

VARIABLES
    mainPc,     \* position of run()
    fatal,      \* the error run() returned ("none" while it has returned none)
    hasFile,    \* whether File::open(statefile) succeeds
    loaded,     \* which of read / init populated the store, in call order
    res,        \* the store's resources, by id
    aux,        \* the store's AuxData, by id
    holders,    \* the processes inside state.res.lock()
    task,       \* status of each JoinSet member
    joinSet,    \* the members join_next has not returned yet
    joined,     \* how often join_next returned each member
    suplog,     \* what the supervisor loop logged, in order
    pc,         \* position of each request handler
    req,        \* the request each handler serves
    loc,        \* each handler's local variables
    sent,       \* the send_set calls each handler made, in order
    resp,       \* each handler's response
    zpc,        \* position of each broker client's event handling
    wpc,        \* position of the persistence task
    stdin,      \* the lines the frame parser is given, in order
    wsPc,       \* position of the frame parser's main()
    wsPos,      \* the line the frame parser reads next
    wsOut,      \* what the frame parser printed, in order
    wsLog       \* what the frame parser logged, in order

supVars == <<task, joinSet, joined, suplog>>
storeVars == <<res, aux>>
reqVars == <<pc, req, loc, sent, resp>>
bgVars == <<zpc, wpc>>
wsVars == <<stdin, wsPc, wsPos, wsOut, wsLog>>
vars == <<mainPc, fatal, hasFile, loaded, res, aux, holders, task, joinSet,
          joined, suplog, pc, req, loc, sent, resp, zpc, wpc, stdin, wsPc,
          wsPos, wsOut, wsLog>>

\* ---------------------------------------------------------- resource store
\* The store's operations: results carry ok, the error kind and the id the
\* error names, and the resource or link found.
Ok(o) == [ok |-> TRUE, err |-> "none", rid |-> 0, obj |-> o, link |-> NoLink]
OkLink(l) == [ok |-> TRUE, err |-> "none", rid |-> 0, obj |-> NoRes, link |-> l]
Err(k, i) == [ok |-> FALSE, err |-> k, rid |-> i, obj |-> NoRes, link |-> NoLink]
NoResp == [ok |-> FALSE, err |-> "pending", rid |-> 0, obj |-> NoRes, link |-> NoLink]

\* What read() finds in state.yaml: a room and its light, a grouped light
\* owned by the room, a grouped light whose owner link names the light, and
\* two scenes, the second one learnt without a topic.
StateFileRes ==
    [i \in Ids |->
        CASE i = 1 -> Room("room")
          [] i = 2 -> Light("lamp", FALSE)
          [] i = 3 -> GroupedLight(Link("room", 1))
          [] i = 4 -> GroupedLight(Link("light", 2))
          [] i = 5 -> Scene("evening", Link("room", 1))
          [] i = 6 -> Scene("night", Link("room", 1))
          [] OTHER -> NoRes]

StateFileAux ==
    [i \in Ids |->
        CASE i = 5 -> Aux(Some("zigbee2mqtt/room"), 3)
          [] i = 6 -> Aux(None, 1)
          [] OTHER -> NoAux]

\* init(bridge_id): the bootstrap resources; fails once initialized.
StoreInitOk(r) == \A i \in Ids : r[i] = NoRes
StoreInit(r) == [r EXCEPT ![1] = BridgeHome]

\* get_resource(type, id): Not-Found if absent or of another variant.
GetResource(r, rtype, id) ==
    IF id \in Ids /\ r[id] # NoRes /\ r[id].type = rtype
    THEN Ok(r[id])
    ELSE Err("NotFound", id)

\* get_link(link): get_resource on the link's type and id.
GetLink(r, link) == GetResource(r, link.rtype, link.rid)

\* add_resource(obj): rejects a duplicate id, inserts, returns the link.
AddResource(r, id, obj) ==
    IF r[id] # NoRes THEN Err("Conflict", id) ELSE OkLink(Link(obj.type, id))

\* delete(link): Not-Found if absent; removes the resource and its AuxData.
DeleteResult(r, link) ==
    IF link.rid \in Ids /\ r[link.rid] # NoRes
    THEN OkLink(link)
    ELSE Err("NotFound", link.rid)

\* ------------------------------------------------------------------- lock
LockFree == holders = {}
Acquire(p) == holders' = holders \cup {p}
Release(p) == holders' = holders \ {p}

\* -------------------------------------------------------------- start-up
Fail(k) == /\ mainPc' = "failed"
           /\ fatal' = k

\* run(): init_logging()?  (try_init fails only when a logger is installed
\* already, which it never is on this first call).
InitLogging ==
    /\ mainPc = "init_logging"
    /\ mainPc' = "parse_config"
    /\ UNCHANGED <<fatal, hasFile, wsVars, loaded, storeVars, holders, supVars, reqVars, bgVars>>

\* load_state(): config::parse(conffile)?
ParseConfig ==
    /\ mainPc = "parse_config"
    /\ \E ok \in BOOLEAN :
          IF ok THEN mainPc' = "new_state" /\ fatal' = fatal
                ELSE Fail("Config")
    /\ UNCHANGED <<hasFile, wsVars, loaded, storeVars, holders, supVars, reqVars, bgVars>>

\* load_state(): AppState::new(config)?
NewAppState ==
    /\ mainPc = "new_state"
    /\ \E ok \in BOOLEAN :
          IF ok THEN mainPc' = "open_state" /\ fatal' = fatal
                ELSE Fail("AppState")
    /\ UNCHANGED <<hasFile, wsVars, loaded, storeVars, holders, supVars, reqVars, bgVars>>

\* load_state(): if let Ok(fd) = File::open(statefile) .. else ..
OpenStateFile ==
    /\ mainPc = "open_state"
    /\ mainPc' = IF hasFile THEN "read_lock" ELSE "init_lock"
    /\ UNCHANGED <<fatal, hasFile, wsVars, loaded, storeVars, holders, supVars, reqVars, bgVars>>

\* appstate.res.lock().await, on either path
LoadLock ==
    /\ mainPc \in {"read_lock", "init_lock"}
    /\ LockFree
    /\ Acquire(MainProc)
    /\ mainPc' = IF mainPc = "read_lock" THEN "read" ELSE "init"
    /\ UNCHANGED <<fatal, hasFile, wsVars, loaded, storeVars, supVars, reqVars, bgVars>>

\* A load_state() that only logs a failed read and goes on without a store.
ReadStateLenient ==
    /\ mainPc = "read"
    /\ \E ok \in BOOLEAN :
          IF ok
          THEN /\ res' = StateFileRes
               /\ aux' = StateFileAux
               /\ loaded' = Append(loaded, "read")
          ELSE UNCHANGED <<res, aux, loaded>>
    /\ mainPc' = "load_cert"
    /\ fatal' = fatal
    /\ Release(MainProc)
    /\ UNCHANGED <<hasFile, wsVars, supVars, reqVars, bgVars>>

\* .read(fd)?  The guard is a temporary: dropped on either outcome.
ReadState ==
    /\ mainPc = "read"
    /\ \E ok \in BOOLEAN :
          IF ok
          THEN /\ res' = StateFileRes
               /\ aux' = StateFileAux
               /\ loaded' = Append(loaded, "read")
               /\ mainPc' = "load_cert"
               /\ fatal' = fatal
          ELSE /\ Fail("StateRead")
               /\ UNCHANGED <<res, aux, loaded>>
    /\ Release(MainProc)
    /\ UNCHANGED <<hasFile, wsVars, supVars, reqVars, bgVars>>

\* .init(&appstate.bridge_id())?
InitState ==
    /\ mainPc = "init"
    /\ IF StoreInitOk(res)
       THEN /\ res' = StoreInit(res)
            /\ loaded' = Append(loaded, "init")
            /\ mainPc' = "load_cert"
            /\ fatal' = fatal
       ELSE /\ Fail("StateInit")
            /\ UNCHANGED <<res, loaded>>
    /\ Release(MainProc)
    /\ UNCHANGED <<aux, hasFile, wsVars, supVars, reqVars, bgVars>>

\* RustlsConfig::from_pem_file(..).await.map_err(..)?
LoadCert ==
    /\ mainPc = "load_cert"
    /\ \E ok \in BOOLEAN :
          IF ok THEN mainPc' = "spawn" /\ fatal' = fatal
                ELSE Fail("Certificate")
    /\ UNCHANGED <<hasFile, wsVars, loaded, storeVars, holders, supVars, reqVars, bgVars>>

\* ----------------------------------------------------------- build_tasks
\* tasks.spawn(http_server); tasks.spawn(https_server); tasks.spawn(config_writer)
SpawnFixed ==
    /\ mainPc = "spawn"
    /\ task' = [t \in Tasks |-> IF t \in FixedTasks THEN "running" ELSE task[t]]
    /\ joinSet' = joinSet \cup FixedTasks
    /\ mainPc' = "clients"
    /\ UNCHANGED <<fatal, hasFile, wsVars, loaded, storeVars, holders, joined, suplog,
                   reqVars, bgVars>>

\* The server the for loop of build_tasks is at.
NextBroker == {b \in Brokers : /\ task[BrokerTask(b)] = "unspawned"
                               /\ \A c \in Brokers : c < b => task[BrokerTask(c)] # "unspawned"}

\* Dropping the JoinSet aborts every task still in it.
AbortAll == [t \in Tasks |-> IF t \in joinSet /\ task[t] = "running" THEN "aborted" ELSE task[t]]

\* z2m::Client::new(..)?; tasks.spawn(client.run_forever())
SpawnClient(b) ==
    /\ mainPc = "clients"
    /\ b \in NextBroker
    /\ \E ok \in BOOLEAN :
          IF ok
          THEN /\ task' = [task EXCEPT ![BrokerTask(b)] = "running"]
               /\ joinSet' = joinSet \cup {BrokerTask(b)}
               /\ UNCHANGED <<mainPc, fatal>>
          ELSE /\ task' = AbortAll
               /\ joinSet' = {}
               /\ Fail("Client")
    /\ UNCHANGED <<hasFile, wsVars, loaded, storeVars, holders, joined, suplog, reqVars, bgVars>>

\* Ok(tasks)
BuildDone ==
    /\ mainPc = "clients"
    /\ NextBroker = {}
    /\ mainPc' = "loop"
    /\ UNCHANGED <<fatal, hasFile, wsVars, loaded, storeVars, holders, supVars, reqVars, bgVars>>

\* ------------------------------------------------------- supervisor loop
Completed == {"ok", "err", "panic"}

\* A spawned task returns Ok(()), returns Err(..) or panics.
TaskFinish(t) ==
    /\ task[t] = "running"
    /\ \E o \in Completed : task' = [task EXCEPT ![t] = o]
    /\ UNCHANGED <<mainPc, fatal, hasFile, wsVars, loaded, storeVars, holders, joinSet,
                   joined, suplog, reqVars, bgVars>>

\* The level and class each arm of the match logs.
LogOf(o) == CASE o = "ok" -> "info:Worker returned"
              [] o = "err" -> "error:Worked task failed"
              [] OTHER -> "error:Error spawning from worker"

\* JoinNext with the TaskError arm propagating the error (break Err(res)):
\* run() returns, the JoinSet is dropped and the remaining tasks are aborted.
JoinNextPropagate(t) ==
    /\ mainPc = "loop"
    /\ t \in joinSet
    /\ task[t] \in Completed
    /\ joined' = [joined EXCEPT ![t] = @ + 1]
    /\ suplog' = Append(suplog, <<t, LogOf(task[t])>>)
    /\ IF task[t] = "err"
       THEN /\ mainPc' = "failed"
            /\ fatal' = "Task"
            /\ joinSet' = {}
            /\ task' = [u \in Tasks |-> IF u \in joinSet /\ task[u] = "running"
                                        THEN "aborted" ELSE task[u]]
       ELSE /\ joinSet' = joinSet \ {t}
            /\ UNCHANGED <<mainPc, fatal, task>>
    /\ UNCHANGED <<hasFile, wsVars, loaded, storeVars, holders, reqVars, bgVars>>

\* JoinNext with a failed task spawned again in place.
JoinNextRespawn(t) ==
    /\ mainPc = "loop"
    /\ t \in joinSet
    /\ task[t] \in Completed
    /\ joined' = [joined EXCEPT ![t] = @ + 1]
    /\ suplog' = Append(suplog, <<t, LogOf(task[t])>>)
    /\ IF task[t] = "err" /\ joined[t] = 0
       THEN /\ task' = [task EXCEPT ![t] = "running"]
            /\ joinSet' = joinSet
       ELSE /\ joinSet' = joinSet \ {t}
            /\ task' = task
    /\ UNCHANGED <<mainPc, fatal, hasFile, wsVars, loaded, storeVars, holders, reqVars, bgVars>>

\* Some(..) = tasks.join_next().await: a completed member leaves the set and
\* its arm logs; the loop goes round.
JoinNext(t) ==
    /\ mainPc = "loop"
    /\ t \in joinSet
    /\ task[t] \in Completed
    /\ joinSet' = joinSet \ {t}
    /\ joined' = [joined EXCEPT ![t] = @ + 1]
    /\ suplog' = Append(suplog, <<t, LogOf(task[t])>>)
    /\ UNCHANGED <<mainPc, fatal, hasFile, wsVars, loaded, storeVars, holders, task,
                   reqVars, bgVars>>

\* JoinNone breaking as soon as one member has been joined.
JoinNoneEarly ==
    /\ mainPc = "loop"
    /\ \E t \in Tasks : joined[t] > 0
    /\ mainPc' = "stopped"
    /\ UNCHANGED <<fatal, hasFile, wsVars, loaded, storeVars, holders, supVars, reqVars, bgVars>>

\* None => break Ok(())
JoinNone ==
    /\ mainPc = "loop"
    /\ joinSet = {}
    /\ mainPc' = "stopped"
    /\ UNCHANGED <<fatal, hasFile, wsVars, loaded, storeVars, holders, supVars, reqVars, bgVars>>

\* -------------------------------------------------------- request inputs
\* A JSON body: each optional field absent (None) or present, and the names
\* of the fields whose value has the wrong JSON type.
Body(on, dim, ct, col, rec, bad) ==
    [on |-> on, dimming |-> dim, color_temperature |-> ct, color |-> col,
     recall |-> rec, bad |-> bad]
EmptyBody == Body(None, None, None, None, None, {})
Recall(a) == Some([action |-> a])

OnDim == Body(Some(TRUE), Some(50), None, None, None, {})
RecallBody(a) == Body(None, None, None, None, Recall(a), {})
BadBody == Body(None, None, None, None, None, {"on", "recall"})

\* The PUTs requested, as <<path, body>>: every stored variant under its own
\* type with a body of its kind, an id the state file does not hold, a
\* scene's id under another type, and bodies that do not decode.
PutInputs ==
    { <<Link("light", 2), OnDim>>,
      <<Link("light", 2), EmptyBody>>,
      <<Link("light", 2), BadBody>>,
      <<Link("grouped_light", 3), OnDim>>,
      <<Link("grouped_light", 3), BadBody>>,
      <<Link("grouped_light", 4), OnDim>>,
      <<Link("scene", 5), RecallBody(Some("active"))>>,
      <<Link("scene", 5), RecallBody(Some("static"))>>,
      <<Link("scene", 5), RecallBody(None)>>,
      <<Link("scene", 5), EmptyBody>>,
      <<Link("scene", 5), BadBody>>,
      <<Link("scene", 6), RecallBody(Some("active"))>>,
      <<Link("scene", 7), RecallBody(Some("active"))>>,
      <<Link("room", 1), OnDim>>,
      <<Link("light", 5), OnDim>> }

GetTargets == { Link("light", 2), Link("scene", 5), Link("scene", 7), Link("light", 5) }
DeleteTargets == { Link("room", 1), Link("light", 2), Link("scene", 5), Link("scene", 7) }

\* POST bodies: a valid resource with a new id, one with an id in use, and
\* one Resource::from_value rejects.
PostInputs ==
    { [valid |-> TRUE, id |-> 7], [valid |-> TRUE, id |-> 2], [valid |-> FALSE, id |-> 7] }

Request(m, l, b, n) == [method |-> m, rtype |-> l.rtype, id |-> l.rid, body |-> b, new |-> n]
NoReq == Request("none", NoLink, EmptyBody, [valid |-> FALSE, id |-> 0])

\* ---------------------------------------------------------------- payloads
NoPayload == [kind |-> "none", state |-> None, brightness |-> None,
              color_temp |-> None, color_xy |-> None, index |-> 0]

\* dim.brightness / 100.0 * 255.0, as a fixed-point number of hundredths
\* (50 -> 12750, that is 127.5).
Brightness(p) == p * 255

\* upd.dimming.map(|dim| dim.brightness / 100.0 * 255.0)
MapBrightness(o) == IF IsSome(o) THEN Some(Brightness(Unwrap(o))) ELSE None

\* serde_json::from_value::<GroupedLightUpdate>(put): fails on a field of the
\* wrong type; the fields it does not name are ignored.
GroupedLightUpdateOk(b) == b.bad \cap {"on", "dimming", "color_temperature", "color"} = {}

\* A translation that fills an absent `on` with its default.
DeviceUpdateDefaults(upd) ==
    [kind |-> "DeviceUpdate",
     state |-> IF IsSome(upd.on) THEN upd.on ELSE Some(FALSE),
     brightness |-> MapBrightness(upd.dimming),
     color_temp |-> upd.color_temperature,
     color_xy |-> upd.color,
     index |-> 0]

\* DeviceUpdate::default().with_state(..).with_brightness(..)
\*     .with_color_temp(..).with_color_xy(..)
DeviceUpdate(upd) ==
    [kind |-> "DeviceUpdate",
     state |-> upd.on,
     brightness |-> MapBrightness(upd.dimming),
     color_temp |-> upd.color_temperature,
     color_xy |-> upd.color,
     index |-> 0]

\* serde_json::from_value::<SceneUpdate>(put)
SceneUpdateOk(b) == "recall" \notin b.bad

\* SceneRecallPayload built by the update translation instead.
SceneRecallAsUpdate(a) ==
    [kind |-> "DeviceUpdate", state |-> Some(TRUE), brightness |-> None,
     color_temp |-> None, color_xy |-> None, index |-> 0]

\* json!({"scene_recall": aux.index})
SceneRecallPayload(a) == [NoPayload EXCEPT !.kind = "scene_recall", !.index = a.index]

\* Some(SceneRecall { action: Some(SceneRecallAction::Active), .. })
RecallActive(b) == IsSome(b.recall) /\ Unwrap(b.recall).action = Some("active")

NoLoc == [obj |-> NoRes, room |-> NoRes]
Call(t, p) == [topic |-> t, payload |-> p, result |-> "pending"]

\* ------------------------------------------------------------- handlers
\* run() has not returned: once it has, main returns and the process, with
\* every handler and task in it, is gone.
Live == mainPc \notin {"failed", "stopped"}

\* A listener is up.
Serving == Live /\ (task[HttpTask] = "running" \/ task[HttpsTask] = "running")

\* The handler returns: its response is r's, and it is done.
Return(r, v) ==
    /\ resp' = [resp EXCEPT ![r] = v]
    /\ pc' = [pc EXCEPT ![r] = "done"]

Goto(r, l) == pc' = [pc EXCEPT ![r] = l]

\* The router hands a request to its handler.
Arrive(r) ==
    /\ pc[r] = "idle"
    /\ Serving
    /\ \A q \in Reqs : q < r => pc[q] # "idle"
    /\ \/ \E l \in GetTargets :
            /\ req' = [req EXCEPT ![r] = Request("GET", l, EmptyBody, NoReq.new)]
            /\ Goto(r, "get")
       \/ \E in \in PutInputs :
            /\ req' = [req EXCEPT ![r] = Request("PUT", in[1], in[2], NoReq.new)]
            /\ Goto(r, "put_get")
       \/ \E l \in DeleteTargets :
            /\ req' = [req EXCEPT ![r] = Request("DELETE", l, EmptyBody, NoReq.new)]
            /\ Goto(r, "delete_lock")
       \/ \E n \in PostInputs :
            /\ req' = [req EXCEPT ![r] = Request("POST", Link("scene", 0), EmptyBody, n)]
            /\ Goto(r, "post_lock")
    /\ UNCHANGED <<mainPc, fatal, hasFile, wsVars, loaded, storeVars, holders, supVars,
                   loc, sent, resp, bgVars>>

\* state.get_resource(rtype, &id).await: takes the lock, looks up, releases.
StateGetResource(rtype, id) == GetResource(res, rtype, id)

\* state.get_link(&link).await
StateGetLink(link) == GetLink(res, link)

\* get_resource_id: V2Reply::ok(state.get_resource(rtype, &id).await?)
GetResourceId(r) ==
    /\ pc[r] = "get"
    /\ Live
    /\ LockFree
    /\ Return(r, StateGetResource(req[r].rtype, req[r].id))
    /\ UNCHANGED <<mainPc, fatal, hasFile, wsVars, loaded, storeVars, holders, supVars,
                   req, loc, sent, bgVars>>

\* post_resource: state.res.lock().await, the receiver of .add_resource(..)
PostLock(r) ==
    /\ pc[r] = "post_lock"
    /\ Live
    /\ LockFree
    /\ Acquire(ReqProc(r))
    /\ Goto(r, "post_add")
    /\ UNCHANGED <<mainPc, fatal, hasFile, wsVars, loaded, storeVars, supVars,
                   req, loc, sent, resp, bgVars>>

\* post_resource: .add_resource(obj?)?; V2Reply::ok(link).  obj? returns with
\* the guard already taken; the guard is a temporary of the statement.
PostAdd(r) ==
    /\ pc[r] = "post_add"
    /\ Live
    /\ LET n == req[r].new
           obj == Scene("posted", Link("room", 1))
           out == IF n.valid THEN AddResource(res, n.id, obj) ELSE Err("Decode", 0)
       IN /\ res' = IF out.ok THEN [res EXCEPT ![n.id] = obj] ELSE res
          /\ Return(r, out)
    /\ Release(ReqProc(r))
    /\ UNCHANGED <<mainPc, fatal, hasFile, wsVars, loaded, aux, supVars, req, loc, sent, bgVars>>

\* DeleteLock without waiting for the lock to be free.
DeleteLockNoWait(r) ==
    /\ pc[r] = "delete_lock"
    /\ Live
    /\ Acquire(ReqProc(r))
    /\ Goto(r, "delete")
    /\ UNCHANGED <<mainPc, fatal, hasFile, wsVars, loaded, storeVars, supVars,
                   req, loc, sent, resp, bgVars>>

\* delete_resource_id: state.res.lock().await
DeleteLock(r) ==
    /\ pc[r] = "delete_lock"
    /\ Live
    /\ LockFree
    /\ Acquire(ReqProc(r))
    /\ Goto(r, "delete")
    /\ UNCHANGED <<mainPc, fatal, hasFile, wsVars, loaded, storeVars, supVars,
                   req, loc, sent, resp, bgVars>>

\* A delete_resource_id that answers with the link whatever delete() returned.
DeleteDoUnchecked(r) ==
    /\ pc[r] = "delete"
    /\ Live
    /\ LET link == Link(req[r].rtype, req[r].id)
           out == DeleteResult(res, link)
       IN /\ res' = IF out.ok THEN [res EXCEPT ![link.rid] = NoRes] ELSE res
          /\ aux' = IF out.ok THEN [aux EXCEPT ![link.rid] = NoAux] ELSE aux
          /\ Return(r, OkLink(link))
    /\ Release(ReqProc(r))
    /\ UNCHANGED <<mainPc, fatal, hasFile, wsVars, loaded, supVars, req, loc, sent, bgVars>>

\* delete_resource_id: .delete(&link)?; V2Reply::ok(link)
DeleteDo(r) ==
    /\ pc[r] = "delete"
    /\ Live
    /\ LET link == Link(req[r].rtype, req[r].id)
           out == DeleteResult(res, link)
       IN /\ res' = IF out.ok THEN [res EXCEPT ![link.rid] = NoRes] ELSE res
          /\ aux' = IF out.ok THEN [aux EXCEPT ![link.rid] = NoAux] ELSE aux
          /\ Return(r, out)
    /\ Release(ReqProc(r))
    /\ UNCHANGED <<mainPc, fatal, hasFile, wsVars, loaded, supVars, req, loc, sent, bgVars>>

\* put_resource_id: let res = state.get_resource(rtype, &id).await?; match res.obj
PutGet(r) ==
    /\ pc[r] = "put_get"
    /\ Live
    /\ LockFree
    /\ LET out == StateGetResource(req[r].rtype, req[r].id)
       IN IF out.ok
          THEN /\ loc' = [loc EXCEPT ![r].obj = out.obj]
               /\ Goto(r, CASE out.obj.type = "light" -> "put_light"
                            [] out.obj.type = "grouped_light" -> "put_owner"
                            [] out.obj.type = "scene" -> "put_scene"
                            [] OTHER -> "put_reread")
               /\ resp' = resp
          ELSE /\ Return(r, out)
               /\ loc' = loc
    /\ UNCHANGED <<mainPc, fatal, hasFile, wsVars, loaded, storeVars, holders, supVars,
                   req, sent, bgVars>>

\* state.send_set(topic, payload) is called: the command is handed to the
\* broker client and the handler waits for the outcome.
SendSet(r, topic, payload) ==
    /\ sent' = [sent EXCEPT ![r] = Append(@, Call(topic, payload))]
    /\ Goto(r, "sending")

\* PutLight writing the requested state into the store before publishing.
PutLightOptimistic(r) ==
    /\ pc[r] = "put_light"
    /\ Live
    /\ IF GroupedLightUpdateOk(req[r].body)
       THEN /\ SendSet(r, loc[r].obj.name, DeviceUpdate(req[r].body))
            /\ res' = IF IsSome(req[r].body.on)
                      THEN [res EXCEPT ![req[r].id].on = Unwrap(req[r].body.on)]
                      ELSE res
            /\ resp' = resp
       ELSE /\ Return(r, Err("Decode", 0))
            /\ UNCHANGED <<sent, res>>
    /\ UNCHANGED <<mainPc, fatal, hasFile, wsVars, loaded, aux, holders, supVars,
                   req, loc, bgVars>>

\* A light arm that sends the empty update for a body that does not decode.
PutLightLenient(r) ==
    /\ pc[r] = "put_light"
    /\ Live
    /\ SendSet(r, loc[r].obj.name,
               IF GroupedLightUpdateOk(req[r].body) THEN DeviceUpdate(req[r].body)
                                                    ELSE DeviceUpdate(EmptyBody))
    /\ resp' = resp
    /\ UNCHANGED <<mainPc, fatal, hasFile, wsVars, loaded, storeVars, holders, supVars,
                   req, loc, bgVars>>

\* Resource::Light(obj): decode the update, build the payload, send_set to
\* obj.metadata.name
PutLight(r) ==
    /\ pc[r] = "put_light"
    /\ Live
    /\ IF GroupedLightUpdateOk(req[r].body)
       THEN /\ SendSet(r, loc[r].obj.name, DeviceUpdate(req[r].body))
            /\ resp' = resp
       ELSE /\ Return(r, Err("Decode", 0))
            /\ sent' = sent
    /\ UNCHANGED <<mainPc, fatal, hasFile, wsVars, loaded, storeVars, holders, supVars,
                   req, loc, bgVars>>

\* PutOwner taking whatever the owner link resolves to for the room.
PutOwnerAny(r) ==
    /\ pc[r] = "put_owner"
    /\ Live
    /\ LockFree
    /\ LET out == StateGetLink(loc[r].obj.owner)
       IN IF out.ok
          THEN /\ loc' = [loc EXCEPT ![r].room = out.obj]
               /\ Goto(r, "put_grouped")
               /\ resp' = resp
          ELSE /\ Return(r, out)
               /\ loc' = loc
    /\ UNCHANGED <<mainPc, fatal, hasFile, wsVars, loaded, storeVars, holders, supVars,
                   req, sent, bgVars>>

\* Resource::GroupedLight(obj): let Resource::Room(rr) =
\*     state.get_link(&obj.owner).await?.obj else { return Err(NotFound(owner.rid)) }
PutOwner(r) ==
    /\ pc[r] = "put_owner"
    /\ Live
    /\ LockFree
    /\ LET out == StateGetLink(loc[r].obj.owner)
       IN IF out.ok /\ out.obj.type = "room"
          THEN /\ loc' = [loc EXCEPT ![r].room = out.obj]
               /\ Goto(r, "put_grouped")
               /\ resp' = resp
          ELSE /\ Return(r, IF out.ok THEN Err("NotFound", loc[r].obj.owner.rid) ELSE out)
               /\ loc' = loc
    /\ UNCHANGED <<mainPc, fatal, hasFile, wsVars, loaded, storeVars, holders, supVars,
                   req, sent, bgVars>>

\* A grouped-light arm that addresses the grouped light itself.
PutGroupedOwnName(r) ==
    /\ pc[r] = "put_grouped"
    /\ Live
    /\ IF GroupedLightUpdateOk(req[r].body)
       THEN /\ SendSet(r, loc[r].obj.name, DeviceUpdate(req[r].body))
            /\ resp' = resp
       ELSE /\ Return(r, Err("Decode", 0))
            /\ sent' = sent
    /\ UNCHANGED <<mainPc, fatal, hasFile, wsVars, loaded, storeVars, holders, supVars,
                   req, loc, bgVars>>

\* Resource::GroupedLight(obj), after the owner: decode, payload, send_set to
\* rr.metadata.name
PutGrouped(r) ==
    /\ pc[r] = "put_grouped"
    /\ Live
    /\ IF GroupedLightUpdateOk(req[r].body)
       THEN /\ SendSet(r, loc[r].room.name, DeviceUpdate(req[r].body))
            /\ resp' = resp
       ELSE /\ Return(r, Err("Decode", 0))
            /\ sent' = sent
    /\ UNCHANGED <<mainPc, fatal, hasFile, wsVars, loaded, storeVars, holders, supVars,
                   req, loc, bgVars>>

\* PutScene rejecting a recall it does not support.
PutSceneStrict(r) ==
    /\ pc[r] = "put_scene"
    /\ Live
    /\ IF ~SceneUpdateOk(req[r].body)
       THEN Return(r, Err("Decode", 0))
       ELSE IF IsSome(req[r].body.recall) /\ ~RecallActive(req[r].body)
       THEN Return(r, Err("Unsupported", 0))
       ELSE /\ Goto(r, IF RecallActive(req[r].body) THEN "scene_lock" ELSE "put_reread")
            /\ resp' = resp
    /\ UNCHANGED <<mainPc, fatal, hasFile, wsVars, loaded, storeVars, holders, supVars,
                   req, loc, sent, bgVars>>

\* Resource::Scene(_obj): decode the SceneUpdate; match upd.recall
PutScene(r) ==
    /\ pc[r] = "put_scene"
    /\ Live
    /\ IF ~SceneUpdateOk(req[r].body)
       THEN Return(r, Err("Decode", 0))
       ELSE /\ Goto(r, IF RecallActive(req[r].body) THEN "scene_lock" ELSE "put_reread")
            /\ resp' = resp
    /\ UNCHANGED <<mainPc, fatal, hasFile, wsVars, loaded, storeVars, holders, supVars,
                   req, loc, sent, bgVars>>

\* the Active arm: let lock = state.res.lock().await
PutSceneLock(r) ==
    /\ pc[r] = "scene_lock"
    /\ Live
    /\ LockFree
    /\ Acquire(ReqProc(r))
    /\ Goto(r, "scene_aux")
    /\ UNCHANGED <<mainPc, fatal, hasFile, wsVars, loaded, storeVars, supVars,
                   req, loc, sent, resp, bgVars>>

\* An Active arm whose early returns leave the guard alive.
PutSceneAuxKeep(r) ==
    /\ pc[r] = "scene_aux"
    /\ Live
    /\ LET a == aux[req[r].id]
       IN IF a.present /\ IsSome(a.topic)
          THEN /\ SendSet(r, Unwrap(a.topic), SceneRecallPayload(a))
               /\ resp' = resp
          ELSE /\ Return(r, Err("NotFound", req[r].id))
               /\ sent' = sent
    /\ UNCHANGED <<mainPc, fatal, hasFile, wsVars, loaded, storeVars, holders, supVars,
                   req, loc, bgVars>>

\* the Active arm: lock.aux.get(&id).ok_or(NotFound(id))?;
\* aux.topic.as_ref().ok_or(NotFound(id))?; send_set(topic, payload), with
\* `lock` still alive.  An early return drops `lock`.
PutSceneAux(r) ==
    /\ pc[r] = "scene_aux"
    /\ Live
    /\ LET a == aux[req[r].id]
       IN IF a.present /\ IsSome(a.topic)
          THEN /\ SendSet(r, Unwrap(a.topic), SceneRecallPayload(a))
               /\ UNCHANGED <<resp, holders>>
          ELSE /\ Return(r, Err("NotFound", req[r].id))
               /\ Release(ReqProc(r))
               /\ sent' = sent
    /\ UNCHANGED <<mainPc, fatal, hasFile, wsVars, loaded, storeVars, supVars, req, loc, bgVars>>

\* SendDone with the outcome of send_set dropped (no `?`).
SendDoneIgnore(r) ==
    /\ pc[r] = "sending"
    /\ Live
    /\ \E ok \in BOOLEAN :
          /\ sent' = [sent EXCEPT ![r][Len(sent[r])].result = IF ok THEN "ok" ELSE "failed"]
          /\ Goto(r, "put_reread")
          /\ resp' = resp
    /\ Release(ReqProc(r))
    /\ UNCHANGED <<mainPc, fatal, hasFile, wsVars, loaded, storeVars, supVars, req, loc, bgVars>>

\* send_set(..).await? returns: accepted for publish, or an error the `?`
\* returns to the caller.  In the scene arm drop(lock) follows; on the error
\* path `lock` goes out of scope.
SendDone(r) ==
    /\ pc[r] = "sending"
    /\ Live
    /\ \E ok \in BOOLEAN :
          /\ sent' = [sent EXCEPT ![r][Len(sent[r])].result = IF ok THEN "ok" ELSE "failed"]
          /\ IF ok
             THEN Goto(r, "put_reread") /\ resp' = resp
             ELSE Return(r, Err("SendSet", 0))
    /\ Release(ReqProc(r))
    /\ UNCHANGED <<mainPc, fatal, hasFile, wsVars, loaded, storeVars, supVars, req, loc, bgVars>>

\* A final re-read that looks the id up as a light, whatever the path named.
PutRereadAsLight(r) ==
    /\ pc[r] = "put_reread"
    /\ Live
    /\ LockFree
    /\ Return(r, StateGetResource("light", req[r].id))
    /\ UNCHANGED <<mainPc, fatal, hasFile, wsVars, loaded, storeVars, holders, supVars,
                   req, loc, sent, bgVars>>

\* V2Reply::ok(state.get_resource(rtype, &id).await?)
PutReread(r) ==
    /\ pc[r] = "put_reread"
    /\ Live
    /\ LockFree
    /\ Return(r, StateGetResource(req[r].rtype, req[r].id))
    /\ UNCHANGED <<mainPc, fatal, hasFile, wsVars, loaded, storeVars, holders, supVars,
                   req, loc, sent, bgVars>>

Handler(r) ==
    \/ Arrive(r)
    \/ GetResourceId(r)
    \/ PostLock(r)
    \/ PostAdd(r)
    \/ DeleteLock(r)
    \/ DeleteDo(r)
    \/ PutGet(r)
    \/ PutLight(r)
    \/ PutOwner(r)
    \/ PutGrouped(r)
    \/ PutScene(r)
    \/ PutSceneLock(r)
    \/ PutSceneAux(r)
    \/ SendDone(r)
    \/ PutReread(r)

\* ------------------------------------------------------ background tasks
\* A broker client receives a device state message and takes the lock.
BrokerLock(b) ==
    /\ zpc[b] = "idle"
    /\ task[BrokerTask(b)] = "running"
    /\ LockFree
    /\ Acquire(BrokerProc(b))
    /\ zpc' = [zpc EXCEPT ![b] = "update"]
    /\ UNCHANGED <<mainPc, fatal, hasFile, wsVars, loaded, storeVars, supVars, reqVars, wpc>>

\* It folds the reported state into the light's live fields and releases.
BrokerUpdate(b) ==
    /\ zpc[b] = "update"
    /\ Live
    /\ \E i \in Ids, v \in BOOLEAN :
          /\ res[i].type = "light"
          /\ res' = [res EXCEPT ![i].on = v]
    /\ Release(BrokerProc(b))
    /\ zpc' = [zpc EXCEPT ![b] = "idle"]
    /\ UNCHANGED <<mainPc, fatal, hasFile, wsVars, loaded, aux, supVars, reqVars, wpc>>

\* A message about no stored light changes nothing.
BrokerSkip(b) ==
    /\ zpc[b] = "update"
    /\ Live
    /\ Release(BrokerProc(b))
    /\ zpc' = [zpc EXCEPT ![b] = "idle"]
    /\ UNCHANGED <<mainPc, fatal, hasFile, wsVars, loaded, storeVars, supVars, reqVars, wpc>>

\* config_writer: takes the lock to serialize the store.
WriterLock ==
    /\ wpc = "idle"
    /\ task[WriterTask] = "running"
    /\ LockFree
    /\ Acquire(WriterProc)
    /\ wpc' = "write"
    /\ UNCHANGED <<mainPc, fatal, hasFile, wsVars, loaded, storeVars, supVars, reqVars, zpc>>

\* config_writer: writes the state file and releases.
WriterWrite ==
    /\ wpc = "write"
    /\ Live
    /\ Release(WriterProc)
    /\ wpc' = "idle"
    /\ UNCHANGED <<mainPc, fatal, hasFile, wsVars, loaded, storeVars, supVars, reqVars, zpc>>

\* ----------------------------------------------------------- frame parser
\* examples/wsparse.rs: main() reads the broker's frames, one per line, from
\* standard input, decodes each as a Message and prints what it carries.
MaxFrames == 3

\* The variants main() matches on.
MessageKinds ==
    {"BridgeInfo", "BridgeLogging", "BridgeExtensions", "BridgeDevices",
     "BridgeGroups", "BridgeDefinitions", "BridgeState", "BridgeEvent"}

\* A line of input: whether its bytes are valid UTF-8, whether its text is
\* JSON, and the message kind the JSON names.
Line(u, j, k) == [utf8 |-> u, json |-> j, kind |-> k]
NotUtf8 == Line(FALSE, FALSE, "none")
NotJson == Line(TRUE, FALSE, "none")
Frame(k) == Line(TRUE, TRUE, k)
Lines == {NotUtf8, NotJson} \cup {Frame(k) : k \in MessageKinds \cup {"Other"}}

RECURSIVE SeqsUpTo(_, _)
SeqsUpTo(S, n) ==
    IF n = 0 THEN {<<>>}
    ELSE LET shorter == SeqsUpTo(S, n - 1)
         IN  shorter \cup {Append(q, x) : q \in {t \in shorter : Len(t) = n - 1}, x \in S}

\* The item stdin().lines() yields: the text, or an io::Error for a line that
\* is not valid UTF-8.
ReadLine(l) == IF l.utf8 THEN Some(l) ELSE None

\* serde_json::from_str::<Message>: the variant, or an error for text that is
\* not JSON or names none of Message's variants.
FromStr(l) == IF l.json /\ l.kind \in MessageKinds THEN Some(l.kind) ELSE None

appVars == <<mainPc, fatal, hasFile, loaded, storeVars, holders, supVars,
             reqVars, bgVars>>

WsNotStarted ==
    /\ stdin = <<>>
    /\ wsPc = "idle"
    /\ wsPos = 1
    /\ wsOut = <<>>
    /\ wsLog = <<>>

WsReading == wsPc = "loop" /\ wsPos <= Len(stdin)

\* `line?`: an io::Error of the line iterator is returned from main().
WsReadError ==
    /\ WsReading
    /\ ~IsSome(ReadLine(stdin[wsPos]))
    /\ wsPc' = "failed"
    /\ UNCHANGED <<stdin, wsPos, wsOut, wsLog, appVars>>

\* A line that does not decode is logged and the loop continues.
WsInvalid ==
    /\ WsReading
    /\ IsSome(ReadLine(stdin[wsPos]))
    /\ ~IsSome(FromStr(stdin[wsPos]))
    /\ wsLog' = Append(wsLog, "error:INVALID LINE")
    /\ wsPos' = wsPos + 1
    /\ UNCHANGED <<stdin, wsPc, wsOut, appVars>>

\* A decoded message is matched on its variant and printed.
WsMessage ==
    /\ WsReading
    /\ IsSome(ReadLine(stdin[wsPos]))
    /\ IsSome(FromStr(stdin[wsPos]))
    /\ wsOut' = Append(wsOut, Unwrap(FromStr(stdin[wsPos])))
    /\ wsPos' = wsPos + 1
    /\ UNCHANGED <<stdin, wsPc, wsLog, appVars>>

\* End of input: the for loop ends and main() returns Ok(()).
WsEof ==
    /\ wsPc = "loop"
    /\ wsPos > Len(stdin)
    /\ wsPc' = "done"
    /\ UNCHANGED <<stdin, wsPos, wsOut, wsLog, appVars>>

Startup ==
    \/ InitLogging
    \/ ParseConfig
    \/ NewAppState
    \/ OpenStateFile
    \/ LoadLock
    \/ ReadState
    \/ InitState
    \/ LoadCert
    \/ SpawnFixed
    \/ \E b \in Brokers : SpawnClient(b)
    \/ BuildDone

AppInit ==
    /\ mainPc = "init_logging"
    /\ fatal = "none"
    /\ hasFile \in BOOLEAN
    /\ loaded = <<>>
    /\ res = EmptyRes
    /\ aux = EmptyAux
    /\ holders = {}
    /\ task = [t \in Tasks |-> "unspawned"]
    /\ joinSet = {}
    /\ joined = [t \in Tasks |-> 0]
    /\ suplog = <<>>
    /\ pc = [r \in Reqs |-> "idle"]
    /\ req = [r \in Reqs |-> NoReq]
    /\ loc = [r \in Reqs |-> NoLoc]
    /\ sent = [r \in Reqs |-> <<>>]
    /\ resp = [r \in Reqs |-> NoResp]
    /\ zpc = [b \in Brokers |-> "idle"]
    /\ wpc = "idle"

Init == AppInit /\ WsNotStarted

Next ==
    \/ Startup
    \/ \E r \in Reqs : Handler(r)
    \/ \E b \in Brokers : BrokerLock(b)
    \/ \E b \in Brokers : BrokerUpdate(b)
    \/ \E b \in Brokers : BrokerSkip(b)
    \/ WriterLock
    \/ WriterWrite

Spec == Init /\ [][Next]_vars

SupNext ==
    \/ Startup
    \/ \E t \in Tasks : TaskFinish(t)
    \/ \E t \in Tasks : JoinNext(t)
    \/ JoinNone

SupSpec == Init /\ [][SupNext]_vars

\* The run() future is polled whenever a member of the JoinSet has completed
\* or the set is empty: the loop's arms are weakly fair.
SupFairSpec ==
    /\ SupSpec
    /\ WF_vars(\E t \in Tasks : JoinNext(t))
    /\ WF_vars(JoinNone)

\* The frame parser on its own, over every input of at most MaxFrames lines.
ParseInit ==
    /\ AppInit
    /\ hasFile = FALSE
    /\ stdin \in SeqsUpTo(Lines, MaxFrames)
    /\ wsPc = "loop"
    /\ wsPos = 1
    /\ wsOut = <<>>
    /\ wsLog = <<>>

ParseNext ==
    \/ WsReadError
    \/ WsInvalid
    \/ WsMessage
    \/ WsEof

ParseSpec == ParseInit /\ [][ParseNext]_vars

\* The steps of handler r that wait for the store lock, and its other steps.
LockStep(r) ==
    \/ GetResourceId(r)
    \/ PostLock(r)
    \/ DeleteLock(r)
    \/ PutGet(r)
    \/ PutOwner(r)
    \/ PutSceneLock(r)
    \/ PutReread(r)

LocalStep(r) ==
    \/ PostAdd(r)
    \/ DeleteDo(r)
    \/ PutLight(r)
    \/ PutGrouped(r)
    \/ PutScene(r)
    \/ PutSceneAux(r)
    \/ SendDone(r)

\* tokio's Mutex hands the lock to its waiters in the order they asked, so a
\* handler waiting for a lock that is freed again and again gets it (strong
\* fairness); a handler that can run is polled, a send_set that was called
\* returns, and a task holding the lock goes on to release it (weak fairness).
FairSpec ==
    /\ Spec
    /\ \A r \in Reqs : SF_vars(LockStep(r)) /\ WF_vars(LocalStep(r))
    /\ \A b \in Brokers : WF_vars(BrokerUpdate(b) \/ BrokerSkip(b))
    /\ WF_vars(WriterWrite)

\* The update translation on its own: a PUT on the light and on the room's
\* grouped light of the state file, over every combination of the update's
\* fields and every brightness percentage.
MaxPercent == 100
Percents == 0..MaxPercent
Mireks == {153, 500}
Updates ==
    { Body(on, dim, ct, col, None, {}) :
        on \in {None, Some(TRUE), Some(FALSE)},
        dim \in {None} \cup {Some(p) : p \in Percents},
        ct \in {None} \cup {Some(m) : m \in Mireks},
        col \in {None, Some(<<31, 33>>)} }
TransTargets == {Link("light", 2), Link("grouped_light", 3)}

TransInit ==
    /\ mainPc = "loop"
    /\ fatal = "none"
    /\ hasFile = TRUE
    /\ loaded = <<"read">>
    /\ res = StateFileRes
    /\ aux = StateFileAux
    /\ holders = {}
    /\ task = [t \in Tasks |-> "running"]
    /\ joinSet = Tasks
    /\ joined = [t \in Tasks |-> 0]
    /\ suplog = <<>>
    /\ pc = [r \in Reqs |-> IF r = 1 THEN "put_get" ELSE "idle"]
    /\ \E l \in TransTargets, b \in Updates :
          req = [r \in Reqs |-> IF r = 1 THEN Request("PUT", l, b, NoReq.new) ELSE NoReq]
    /\ loc = [r \in Reqs |-> NoLoc]
    /\ sent = [r \in Reqs |-> <<>>]
    /\ resp = [r \in Reqs |-> NoResp]
    /\ zpc = [b \in Brokers |-> "idle"]
    /\ wpc = "idle"
    /\ WsNotStarted

TransNext ==
    \/ \E r \in Reqs : PutGet(r)
    \/ \E r \in Reqs : PutLight(r)
    \/ \E r \in Reqs : PutOwner(r)
    \/ \E r \in Reqs : PutGrouped(r)
    \/ \E r \in Reqs : SendDone(r)
    \/ \E r \in Reqs : PutReread(r)

TransSpec == TransInit /\ [][TransNext]_vars

\* ------------------------------------------------------------ supervisor
Running == {t \in Tasks : task[t] = "running"}
ErrorLine == "error:Worked task failed"

\* C1: when join_next returns a task that ended with an application error
\* (Ok(Err)), the loop only logs it at error level and goes on waiting: no
\* task's status changes in that step, run() stays in the loop, and no task
\* is ever aborted while run() is in the loop or has stopped, so that every
\* other task ends by its own completion.
C1_TaskErrorOnlyLogged ==
    /\ [][\A t \in Tasks :
            (mainPc = "loop" /\ task[t] = "err" /\ joined'[t] # joined[t])
            => /\ mainPc' = "loop"
               /\ fatal' = "none"
               /\ task' = task
               /\ joinSet' = joinSet \ {t}
               /\ suplog' = Append(suplog, <<t, ErrorLine>>)]_vars
    /\ [](mainPc \in {"loop", "stopped"} => \A t \in Tasks : task[t] # "aborted")

\* A task failed and was logged, and afterwards another one returned Ok and
\* was joined.
C1_Witness ==
    \E i, j \in 1..Len(suplog) :
        /\ i < j
        /\ suplog[i][2] = ErrorLine
        /\ suplog[j][2] = "info:Worker returned"
        /\ suplog[i][1] # suplog[j][1]

\* C2: run() returns Ok (Stopped) only when every spawned task (the two
\* listeners, the persistence task and each broker client) has completed, by
\* success, application error or join failure; and once every task still in
\* the JoinSet has completed, the supervisor eventually stops.
C2_StopsIffAllCompleted ==
    /\ [](mainPc = "stopped" => \A t \in Tasks : task[t] \in Completed)
    /\ ((mainPc = "loop" /\ \A t \in joinSet : task[t] \in Completed)
            ~> mainPc = "stopped")

\* Stopped, with one task of each outcome among the completed ones.
C2_Witness ==
    /\ mainPc = "stopped"
    /\ \A o \in Completed : \E t \in Tasks : task[t] = o

\* C3: no task is restarted or respawned. Once build_tasks has returned, the
\* JoinSet holds exactly the tasks not yet joined out of the 3 fixed ones plus
\* one per broker, it and the set of running tasks only shrink, a completed
\* task never runs again, and each completion is observed at most once,
\* exactly once by the time the supervisor stops.
C3_NoRespawn ==
    /\ [][mainPc = "loop" =>
            /\ joinSet' \subseteq joinSet
            /\ Running' \subseteq Running
            /\ \A t \in Tasks : joined'[t] >= joined[t]]_vars
    /\ [](mainPc = "loop" => joinSet \cup {t \in Tasks : joined[t] > 0} = Tasks)
    /\ [](\A t \in Tasks : joined[t] <= 1 /\ (joined[t] = 1 => t \notin joinSet))
    /\ [](mainPc = "stopped" => \A t \in Tasks : joined[t] = 1)

\* Every task has been joined once, one of them after failing.
C3_Witness ==
    /\ mainPc = "stopped"
    /\ \A t \in Tasks : joined[t] = 1
    /\ \E t \in Tasks : task[t] = "err"

\* ---------------------------------------------------------------- handlers
IsPut(r) == req[r].method = "PUT"
Done(r) == pc[r] = "done"
Steps(r) == pc'[r] # pc[r]
\* An outbound command of a handler is a send_set call it made.
Commands(r) == Len(sent[r])

\* C4: the store lock is never held across an I/O wait: whenever a handler
\* is waiting in send_set, it does not hold the store lock (the scene-recall
\* arm of put_resource_id included).
C4_NoLockAcrossSend ==
    \A r \in Reqs : pc[r] = "sending" => ReqProc(r) \notin holders

\* C5: a PUT on a Scene whose recall action is Active and whose AuxData has
\* topic T and index I issues exactly one outbound command, to topic T with
\* payload {"scene_recall": I}; the payload is not a DeviceUpdate.
C5_SceneRecallCommand ==
    /\ [][\A r \in Reqs :
            LET a == aux[req[r].id]
            IN (pc[r] = "scene_aux" /\ Steps(r) /\ a.present /\ IsSome(a.topic))
               => /\ pc'[r] = "sending"
                  /\ sent'[r] = << [topic |-> a.topic[1],
                                    payload |-> [kind |-> "scene_recall", index |-> a.index,
                                                 state |-> <<>>, brightness |-> <<>>,
                                                 color_temp |-> <<>>, color_xy |-> <<>>],
                                    result |-> "pending"] >>]_vars
    /\ [](\A r \in Reqs :
            (IsPut(r) /\ loc[r].obj.type = "scene")
            => /\ Commands(r) <= 1
               /\ \A k \in 1..Commands(r) : sent[r][k].payload.kind = "scene_recall")
    /\ [](\A r \in Reqs :
            (IsPut(r) /\ loc[r].obj.type = "scene" /\ RecallActive(req[r].body)
               /\ pc[r] \in {"sending", "put_reread"})
            => Commands(r) = 1)

\* The PUT on scene 5 has returned after its one command, scene_recall 3 to
\* the scene's topic, was accepted.
C5_Witness ==
    \E r \in Reqs :
        /\ Done(r) /\ IsPut(r) /\ resp[r].ok
        /\ req[r].id = 5 /\ RecallActive(req[r].body)
        /\ Commands(r) = 1
        /\ sent[r][1].topic = "zigbee2mqtt/room"
        /\ sent[r][1].payload.kind = "scene_recall"
        /\ sent[r][1].payload.index = 3
        /\ sent[r][1].result = "ok"

\* A PUT found a Scene and its body decodes with recall absent, or with a
\* recall whose action is absent or not Active.
NoRecallPut(r) ==
    /\ IsPut(r)
    /\ loc[r].obj.type = "scene"
    /\ SceneUpdateOk(req[r].body)
    /\ ~RecallActive(req[r].body)

\* Another request deleted the resource r is about.
DeletedByOther(r) ==
    \E q \in Reqs \ {r} :
        /\ req[q].method = "DELETE"
        /\ req[q].id = req[r].id
        /\ Done(q) /\ resp[q].ok

\* C6 as stated: such a PUT issues no outbound command and returns success.
C6_NoRecallAlwaysSucceeds ==
    \A r \in Reqs : (Done(r) /\ NoRecallPut(r)) => (Commands(r) = 0 /\ resp[r].ok)

\* C6, amended: such a PUT issues no outbound command and is accepted: it
\* returns the stored scene whenever the scene is still in the store at the
\* handler's final re-read; its only error is Not-Found for the scene's id,
\* and only after another request deleted the scene meanwhile.
C6_NoRecallNoCommand ==
    /\ [](\A r \in Reqs :
            NoRecallPut(r) =>
                /\ Commands(r) = 0
                /\ Done(r) => \/ resp[r].ok /\ resp[r].obj.type = "scene"
                              \/ /\ resp[r] = Err("NotFound", req[r].id)
                                 /\ DeletedByOther(r))
    /\ [][\A r \in Reqs :
            (NoRecallPut(r) /\ pc[r] = "put_reread" /\ Steps(r)
               /\ res[req[r].id].type = "scene")
            => (pc'[r] = "done" /\ resp'[r] = Ok(res[req[r].id]))]_vars

\* PUTs on scene 5 with a Static recall, with a recall without action and
\* without recall have returned the scene.
C6_Witness ==
    \E r \in Reqs :
        /\ Done(r) /\ NoRecallPut(r) /\ resp[r].ok
        /\ IsSome(req[r].body.recall)
        /\ req[r].body.recall[1].action = Some("static")

\* C7: a PUT issues at most one outbound command (no retry, no duplicate),
\* and when send_set fails the PUT returns that error, not a success.
C7_AtMostOnce ==
    \A r \in Reqs :
        /\ Commands(r) <= 1
        /\ (Done(r) /\ Commands(r) = 1 /\ sent[r][1].result = "failed")
              => resp[r] = Err("SendSet", 0)
        /\ (Done(r) /\ IsPut(r) /\ resp[r].ok /\ Commands(r) = 1)
              => sent[r][1].result = "ok"

\* A PUT returned the error of its one, failed, send_set.
C7_Witness ==
    \E r \in Reqs :
        /\ Done(r) /\ IsPut(r)
        /\ Commands(r) = 1 /\ sent[r][1].result = "failed"
        /\ ~resp[r].ok

\* C8: no step of a PUT handler changes the store's resources or AuxData,
\* and a successful PUT returns the resource as stored, not as requested; the
\* store changes only in the start-up load, a broker client's update, a POST
\* or a DELETE.
C8_PutLeavesStore ==
    /\ [][\A r \in Reqs :
            (req'[r].method = "PUT" /\ Steps(r)) => (res' = res /\ aux' = aux)]_vars
    /\ [][\A r \in Reqs :
            (IsPut(r) /\ Steps(r) /\ pc'[r] = "done" /\ resp'[r].ok)
            => resp'[r].obj = res[req[r].id]]_vars
    /\ [][(res' # res \/ aux' # aux) =>
            \/ mainPc \in {"read", "init"} /\ mainPc' # mainPc
            \/ \E b \in Brokers : zpc[b] = "update" /\ zpc'[b] = "idle"
            \/ \E r \in Reqs : /\ req[r].method \in {"POST", "DELETE"}
                               /\ Steps(r)]_vars

\* A PUT asking the lamp on has published and returned the lamp, still off.
C8_Witness ==
    \E r \in Reqs :
        /\ Done(r) /\ IsPut(r) /\ resp[r].ok
        /\ req[r].body.on = Some(TRUE)
        /\ Commands(r) = 1 /\ sent[r][1].result = "ok"
        /\ sent[r][1].payload.state = Some(TRUE)
        /\ resp[r].obj.type = "light"
        /\ resp[r].obj.on = FALSE
        /\ res[req[r].id].on = FALSE

\* The owner link of the grouped light r found resolves to a stored Room.
OwnerIsRoom(r) ==
    LET o == loc[r].obj.owner
    IN o.rid \in Ids /\ res[o.rid].type = "room"

\* C9: a PUT on a GroupedLight whose owner link resolves to no stored
\* resource, or to one that is not a Room, returns Not-Found for the owner's
\* id, issues no outbound command, and the handler returns (no panic).
C9_DanglingOwner ==
    /\ [][\A r \in Reqs :
            (pc[r] = "put_owner" /\ Steps(r) /\ ~OwnerIsRoom(r))
            => /\ pc'[r] = "done"
               /\ resp'[r] = Err("NotFound", loc[r].obj.owner.rid)
               /\ sent'[r] = <<>>]_vars
    /\ [](\A r \in Reqs :
            (Done(r) /\ IsPut(r) /\ loc[r].obj.type = "grouped_light"
               /\ loc[r].room = NoRes /\ resp[r].err = "NotFound")
            => (Commands(r) = 0 /\ resp[r].rid = loc[r].obj.owner.rid))

\* Both cases have happened: the owner room was deleted, and the owner link
\* names a light.
C9_Witness ==
    \E r, q \in Reqs :
        /\ Done(r) /\ IsPut(r) /\ req[r].id = 3
        /\ resp[r] = Err("NotFound", 1)
        /\ res[1] = NoRes
        /\ Commands(r) = 0
        /\ Done(q) /\ req[q].method = "DELETE" /\ req[q].id = 1 /\ resp[q].ok

\* The owner link names a light: Not-Found for the light's id.
C9_WitnessNotRoom ==
    \E r \in Reqs :
        /\ Done(r) /\ IsPut(r) /\ req[r].id = 4
        /\ resp[r] = Err("NotFound", 2)
        /\ res[2].type = "light"
        /\ Commands(r) = 0

\* The processes that are at a store access.
Accessing ==
    (IF mainPc \in {"read", "init"} THEN {MainProc} ELSE {})
    \cup {ReqProc(r) : r \in {q \in Reqs : pc[q] \in {"post_add", "delete", "scene_aux"}}}
    \cup {BrokerProc(b) : b \in {c \in Brokers : zpc[c] = "update"}}
    \cup (IF wpc = "write" THEN {WriterProc} ELSE {})

\* C10: store accesses are serialized by the one store lock: at most one
\* process holds it, every process at a store access (read, init,
\* add_resource, delete, the aux lookup, a broker update, the persistence
\* write) holds it, the store changes only in a step of the holder, and the
\* lookups of get_resource / get_link happen only while no one else holds it.
C10_Serialized ==
    /\ [](Cardinality(holders) <= 1)
    /\ [](Accessing \subseteq holders)
    /\ [][(res' # res \/ aux' # aux) => (Cardinality(holders) = 1 /\ holders' = {})]_vars
    /\ [][\A r \in Reqs :
            (pc[r] \in {"get", "put_get", "put_owner", "put_reread"} /\ Steps(r))
            => holders = {}]_vars

\* A DELETE holds the lock at its store access while another request waits
\* for the lock.
C10_Witness ==
    \E r, q \in Reqs :
        /\ pc[r] = "delete" /\ holders = {ReqProc(r)}
        /\ pc[q] \in {"post_lock", "delete_lock", "scene_lock", "put_get"}

\* ---------------------------------------------------------------- start-up
\* C11: only a failed parse of the configuration or a failed load of the TLS
\* certificate is fatal: run() never returns the error of reading the state
\* file, of initialising the store or of constructing a broker client, and
\* no task that was spawned is aborted because of one.
C11_OnlyConfigOrCertFatal ==
    /\ fatal \notin {"StateRead", "StateInit", "Client"}
    /\ \A t \in Tasks : task[t] # "aborted"

Spawned == {t \in Tasks : task[t] # "unspawned"}
Populated == IF hasFile THEN <<"read">> ELSE <<"init">>
PastLoadState == mainPc \in {"load_cert", "spawn", "clients", "loop", "stopped"}

\* C12: the store is populated by read() when the state file opens and by
\* init() otherwise, never by both and never by the other one; once
\* load_state() has got past it, and so whenever any task has been spawned,
\* exactly that one call has completed successfully, its lock guard is
\* dropped, and a store that was read holds what the file holds.
C12_PopulatedOnceBeforeSpawn ==
    /\ loaded \in {<<>>, Populated}
    /\ (PastLoadState \/ Spawned # {})
       => /\ loaded = Populated
          /\ MainProc \notin holders
          /\ hasFile => res = StateFileRes /\ aux = StateFileAux
    /\ mainPc \in {"read", "init"} => Spawned = {} /\ loaded = <<>>

C12_Witness ==
    /\ Spawned = Tasks
    /\ loaded = <<"read">>
    /\ res = StateFileRes

\* ----------------------------------------------------------------- DELETE
IsGet(r) == req[r].method = "GET"
IsDelete(r) == req[r].method = "DELETE"
SameTarget(q, r) == req[q].rtype = req[r].rtype /\ req[q].id = req[r].id
ReAdded(id) ==
    \E p \in Reqs : req[p].method = "POST" /\ pc[p] = "done" /\ resp[p].ok /\ req[p].new.id = id
ResourceTypes == {"light", "room", "grouped_light", "scene", "bridge_home"}

\* C13: a DELETE of a link that is in the store succeeds and leaves a store in
\* which get_resource on that id is Not-Found for the link's type (and every
\* other); a GET served after a successful DELETE of the same type and id, no
\* POST having added the id again, fails with Not-Found for that id; a DELETE
\* of a link that is not in the store fails with Not-Found for its id and
\* leaves resources and AuxData as they were, and a further DELETE of the same
\* link fails with the same error.
C13_DeleteThenNotFound ==
    /\ [][\A r \in Reqs :
            (pc[r] = "delete" /\ pc'[r] # pc[r])
            => IF res[req[r].id] # NoRes
               THEN /\ resp'[r] = OkLink(Link(req[r].rtype, req[r].id))
                    /\ \A t \in ResourceTypes :
                          GetResource(res', t, req[r].id) = Err("NotFound", req[r].id)
               ELSE /\ resp'[r] = Err("NotFound", req[r].id)
                    /\ res' = res
                    /\ aux' = aux]_vars
    /\ [][\A q \in Reqs :
            (/\ pc[q] = "get" /\ pc'[q] # pc[q]
             /\ ~ReAdded(req[q].id)
             /\ \E r \in Reqs \ {q} :
                   IsDelete(r) /\ pc[r] = "done" /\ resp[r].ok /\ SameTarget(q, r))
            => resp'[q] = Err("NotFound", req[q].id)]_vars
    /\ [][\A q \in Reqs :
            (/\ pc[q] = "delete" /\ pc'[q] # pc[q]
             /\ ~ReAdded(req[q].id)
             /\ \E r \in Reqs \ {q} :
                   IsDelete(r) /\ pc[r] = "done" /\ ~resp[r].ok /\ SameTarget(q, r))
            => /\ resp'[q] = Err("NotFound", req[q].id)
               /\ res' = res]_vars

\* A GET of the light of the state file that found it deleted.
C13_Witness ==
    /\ loaded = <<"read">>
    /\ \E r, q \in Reqs :
          /\ IsDelete(r) /\ pc[r] = "done" /\ resp[r] = OkLink(Link("light", 2))
          /\ IsGet(q) /\ pc[q] = "done" /\ SameTarget(q, r)
          /\ resp[q] = Err("NotFound", 2)

\* A DELETE of an absent link, repeated.
C13_WitnessRepeated ==
    \E r, q \in Reqs :
       /\ r # q
       /\ IsDelete(r) /\ pc[r] = "done" /\ resp[r] = Err("NotFound", 7)
       /\ IsDelete(q) /\ pc[q] = "done" /\ resp[q] = resp[r]

\* ------------------------------------------------------ update translation
\* C14: an update's brightness percentage p reaches the outbound payload as
\* p / 100 * 255 under a fixed rounding rule: 0 as 0, 100 as 255 and 50 as
\* exactly 127 or exactly 128 (brightness is carried in hundredths).
C14_BrightnessRounded ==
    \A r \in Reqs : \A i \in 1..Len(sent[r]) :
       (IsPut(r) /\ sent[r][i].payload.kind = "DeviceUpdate" /\ IsSome(req[r].body.dimming))
       => LET p == Unwrap(req[r].body.dimming)
              b == sent[r][i].payload.brightness
          IN /\ IsSome(b)
             /\ p = 0 => Unwrap(b) = 0
             /\ p = MaxPercent => Unwrap(b) = 25500
             /\ p = 50 => Unwrap(b) \in {12700, 12800}

\* C15: in every device update sent, state, brightness, color_temp and
\* color_xy are present exactly when the request's update sets on, dimming,
\* color_temperature and color; on, the mirek value and the xy pair are the
\* update's own, unchanged; an update that sets no field yields the payload
\* with no field; and a PUT on a light or a resolved grouped light whose body
\* decodes always sends its device update, whatever the fields.
C15_FieldsIffSet ==
    /\ \A r \in Reqs : \A i \in 1..Len(sent[r]) :
          (IsPut(r) /\ sent[r][i].payload.kind = "DeviceUpdate")
          => LET u == req[r].body
                 d == sent[r][i].payload
             IN /\ IsSome(d.state) <=> IsSome(u.on)
                /\ IsSome(d.brightness) <=> IsSome(u.dimming)
                /\ IsSome(d.color_temp) <=> IsSome(u.color_temperature)
                /\ IsSome(d.color_xy) <=> IsSome(u.color)
                /\ d.state = u.on
                /\ d.color_temp = u.color_temperature
                /\ d.color_xy = u.color
                /\ u = EmptyBody => d = [NoPayload EXCEPT !.kind = "DeviceUpdate"]
    /\ \A r \in Reqs :
          (/\ IsPut(r) /\ GroupedLightUpdateOk(req[r].body)
           /\ pc[r] \in {"sending", "put_reread", "done"}
           /\ (loc[r].obj.type = "light" \/ loc[r].room.type = "room"))
          => Len(sent[r]) = 1

C15_Witness ==
    \E r \in Reqs :
       /\ IsPut(r) /\ pc[r] = "done" /\ resp[r].ok
       /\ Len(sent[r]) = 1
       /\ sent[r][1].payload.color_temp = Some(153)
       /\ sent[r][1].payload.color_xy = Some(<<31, 33>>)
       /\ sent[r][1].payload.state = Some(FALSE)
       /\ IsSome(sent[r][1].payload.brightness)

\* The update with no field, sent as the payload with no field.
C15_WitnessEmpty ==
    \E r \in Reqs :
       /\ IsPut(r) /\ req[r].body = EmptyBody
       /\ Len(sent[r]) = 1
       /\ sent[r][1].payload = [NoPayload EXCEPT !.kind = "DeviceUpdate"]

\* ------------------------------------------------------------ frame parser
\* The kinds of the well-formed frames of an input, in order.
RECURSIVE Classified(_)
Classified(s) ==
    IF s = <<>> THEN <<>>
    ELSE (IF IsSome(FromStr(Head(s))) THEN <<Unwrap(FromStr(Head(s)))>> ELSE <<>>)
         \o Classified(Tail(s))

\* C16: a line that is malformed or names none of the eight message kinds is
\* skipped without ending the loop, so that when main() has returned every
\* well-formed frame of the input, those after such a line included, has
\* been classified and printed, in order.
C16_MalformedSkipped ==
    wsPc \in {"done", "failed"} => wsOut = Classified(stdin)

\* ------------------------------------------------------------ PUT dispatch
\* A PUT whose target was found as a variant other than Light, GroupedLight
\* and Scene.
OtherVariant(r) ==
    IsPut(r) /\ loc[r].obj.type \notin {"none", "light", "grouped_light", "scene"}

\* The topic the command of handler r must carry, by the variant found.
TopicByVariant(r) ==
    CASE loc[r].obj.type = "light" -> loc[r].obj.name
      [] loc[r].obj.type = "grouped_light" -> loc[r].room.name
      [] loc[r].obj.type = "scene" -> Unwrap(aux[req[r].id].topic)
      [] OTHER -> "none"

\* The lookups behind the dispatch: the variant is the stored resource's, and
\* a grouped light's room is the Room its owner link resolves to.
DispatchLookups ==
    /\ [][\A r \in Reqs :
            (pc[r] = "put_get" /\ pc'[r] \notin {"put_get", "done"})
            => /\ loc'[r].obj = res[req[r].id]
               /\ pc'[r] = CASE res[req[r].id].type = "light" -> "put_light"
                             [] res[req[r].id].type = "grouped_light" -> "put_owner"
                             [] res[req[r].id].type = "scene" -> "put_scene"
                             [] OTHER -> "put_reread"]_vars
    /\ [][\A r \in Reqs :
            (pc[r] = "put_owner" /\ pc'[r] = "put_grouped")
            => /\ loc'[r].room = res[loc[r].obj.owner.rid]
               /\ loc'[r].room.type = "room"]_vars

\* Every command goes to the topic of the variant found.
DispatchTopics ==
    [][\A r \in Reqs :
          sent'[r] # sent[r] /\ Len(sent'[r]) # Len(sent[r])
          => /\ IsPut(r)
             /\ loc[r].obj.type \in {"light", "grouped_light", "scene"}
             /\ Len(sent'[r]) = Len(sent[r]) + 1
             /\ sent'[r][Len(sent'[r])].topic = TopicByVariant(r)]_vars

\* C17 as stated: the dispatch, and a PUT on any other variant publishes no
\* command and succeeds.
C17_OtherVariantSucceeds ==
    /\ DispatchLookups
    /\ DispatchTopics
    /\ [](\A r \in Reqs :
            OtherVariant(r)
            => /\ Commands(r) = 0
               /\ Done(r) => resp[r].ok)

\* C17: the dispatch as stated (a Light's command to its own name, a
\* GroupedLight's to the name of the Room its owner resolves to, a Scene's to
\* its AuxData topic, no command for any other variant); a PUT on any other
\* variant returns the resource found at the final re-read, and fails, with
\* Not-Found for its id, only when another request deleted it meanwhile.
C17_DispatchByVariant ==
    /\ DispatchLookups
    /\ DispatchTopics
    /\ [](\A r \in Reqs :
            OtherVariant(r)
            => /\ Commands(r) = 0
               /\ Done(r) => \/ resp[r] = Ok(loc[r].obj)
                             \/ resp[r] = Err("NotFound", req[r].id) /\ DeletedByOther(r))

\* A grouped light's command sent to its room's name, and a PUT on a room
\* that succeeded without a command.
C17_Witness ==
    \E r, q \in Reqs :
       /\ IsPut(r) /\ loc[r].obj.type = "grouped_light" /\ Done(r) /\ resp[r].ok
       /\ Len(sent[r]) = 1 /\ sent[r][1].topic = "room"
       /\ OtherVariant(q) /\ Done(q) /\ resp[q].ok /\ Commands(q) = 0

\* ------------------------------------------------------ PUT error handling
\* The request fails in this step with error e, having sent nothing.
FailsUnsent(r, e) ==
    /\ pc'[r] = "done"
    /\ resp'[r] = e
    /\ sent[r] = <<>>
    /\ sent'[r] = <<>>

\* C18: a PUT that fails before its send_set sends nothing: when the target
\* is not in the store under the requested variant, when a grouped light's
\* owner does not resolve to a Room, when the body does not decode as the
\* variant's update, and when an Active recall finds no AuxData for the
\* scene or AuxData without a topic, the handler returns the error in that
\* very step, with no command sent before or in it; and whenever a PUT
\* returns from a position before its send_set, it returns an error.
C18_FailedBeforePublish ==
    /\ [][\A r \in Reqs :
            (pc[r] = "put_get" /\ Steps(r) /\ ~GetResource(res, req[r].rtype, req[r].id).ok)
            => FailsUnsent(r, Err("NotFound", req[r].id))]_vars
    /\ [][\A r \in Reqs :
            (pc[r] = "put_owner" /\ Steps(r) /\ res[loc[r].obj.owner.rid].type # "room")
            => FailsUnsent(r, Err("NotFound", loc[r].obj.owner.rid))]_vars
    /\ [][\A r \in Reqs :
            (pc[r] \in {"put_light", "put_grouped"} /\ Steps(r) /\ req[r].body.bad # {})
            => FailsUnsent(r, Err("Decode", 0))]_vars
    /\ [][\A r \in Reqs :
            (pc[r] = "put_scene" /\ Steps(r) /\ "recall" \in req[r].body.bad)
            => FailsUnsent(r, Err("Decode", 0))]_vars
    /\ [][\A r \in Reqs :
            (/\ pc[r] = "scene_aux" /\ Steps(r)
             /\ ~aux[req[r].id].present \/ aux[req[r].id].topic = None)
            => /\ FailsUnsent(r, Err("NotFound", req[r].id))
               /\ ReqProc(r) \notin holders']_vars
    /\ [][\A r \in Reqs :
            (/\ pc[r] \in {"put_get", "put_owner", "put_light", "put_grouped",
                           "put_scene", "scene_lock", "scene_aux"}
             /\ pc'[r] = "done")
            => ~resp'[r].ok /\ sent'[r] = <<>>]_vars

\* An Active recall on the scene whose AuxData has no topic, and a body that
\* does not decode: both failed, neither sent anything.
C18_Witness ==
    \E r, q \in Reqs :
       /\ IsPut(r) /\ req[r].id = 6 /\ Done(r)
       /\ resp[r] = Err("NotFound", 6) /\ Commands(r) = 0
       /\ aux[6].present /\ aux[6].topic = None
       /\ IsPut(q) /\ Done(q) /\ resp[q] = Err("Decode", 0) /\ Commands(q) = 0

\* -------------------------------------------------------- PUT after publish
\* Handler r's send_set was accepted for publish.
Published(r) ==
    IsPut(r) /\ Len(sent[r]) > 0 /\ sent[r][Len(sent[r])].result = "ok"

\* C19: a PUT whose command was published goes on to the final re-read and
\* returns what that finds: an error only as Not-Found for the target's id,
\* and only when the target, present at the PUT's lookup, is gone from the
\* store at the re-read because another request's DELETE of it succeeded in
\* between; whenever the target is in the store at the re-read (and so
\* whenever no request mutated the store meanwhile), the PUT returns success
\* with the resource as stored.
C19_PublishedFailsOnlyIfRemoved ==
    /\ [](\A r \in Reqs :
            (Published(r) /\ Done(r) /\ ~resp[r].ok)
            => /\ resp[r] = Err("NotFound", req[r].id)
               /\ DeletedByOther(r))
    /\ [][\A r \in Reqs :
            (pc[r] = "sending" /\ Steps(r) /\ sent'[r][Len(sent'[r])].result = "ok")
            => pc'[r] = "put_reread" /\ resp'[r] = resp[r]]_vars
    /\ [][\A r \in Reqs :
            (pc[r] = "put_reread" /\ Steps(r))
            => IF res[req[r].id].type = req[r].rtype
               THEN resp'[r] = Ok(res[req[r].id])
               ELSE /\ resp'[r] = Err("NotFound", req[r].id)
                    /\ loc[r].obj.type = req[r].rtype
                    /\ DeletedByOther(r)]_vars

\* A PUT that published and then found its target deleted.
C19_Witness ==
    \E r \in Reqs :
       /\ Published(r) /\ Done(r)
       /\ resp[r] = Err("NotFound", req[r].id)
       /\ DeletedByOther(r)

\* A PUT that published, with no other request served, and succeeded.
C19_WitnessAlone ==
    \E r \in Reqs :
       /\ Published(r) /\ Done(r) /\ resp[r].ok
       /\ \A q \in Reqs \ {r} : pc[q] = "idle"

\* ------------------------------------------------------------- store lock
\* The handler positions that wait for the store lock, and those held with it.
LockWaitPcs ==
    {"get", "put_get", "put_owner", "put_reread", "post_lock", "delete_lock", "scene_lock"}
InCritical(r) ==
    \/ pc[r] \in {"post_add", "delete", "scene_aux"}
    \/ pc[r] = "sending" /\ loc[r].obj.type = "scene"

\* C20: a handler holds the store lock exactly while it is inside one of its
\* critical sections (add_resource, delete, the Active recall from its aux
\* lookup to the return of its send_set), so it has released the lock on
\* every return, the error returns of the scene recall included; the lock is
\* held only by a process inside a critical section; a handler acquires the
\* lock only when no process, itself included, holds it; and every request
\* gets through all its waits for the lock to its response (a handler
\* waiting for the lock gets it), as long as the process lives.
C20_LockReleased ==
    /\ [](\A r \in Reqs : ReqProc(r) \in holders <=> InCritical(r))
    /\ [](\A r \in Reqs : Done(r) => ReqProc(r) \notin holders)
    /\ [](holders \subseteq Accessing \cup {ReqProc(r) : r \in {q \in Reqs : InCritical(q)}})
    /\ [][\A r \in Reqs :
            (ReqProc(r) \in holders' /\ ReqProc(r) \notin holders) => holders = {}]_vars
    /\ [][\A r \in Reqs :
            (pc[r] \in LockWaitPcs /\ Steps(r)) => holders = {}]_vars
    /\ \A r \in Reqs : (pc[r] # "idle") ~> (Done(r) \/ ~Live)

\* The Active recall on the scene without a topic has returned its error,
\* and another handler holds the lock.
C20_Witness ==
    \E r, q \in Reqs :
       /\ IsPut(r) /\ req[r].id = 6 /\ Done(r) /\ resp[r] = Err("NotFound", 6)
       /\ pc[q] = "delete"
       /\ holders = {ReqProc(q)}

====
